---- MODULE Spec2Model ----
(***************************************************************************)
(* Model of functions/webhook.js: a LINE webhook that translates chat      *)
(* messages through a completion API and relays the result.                *)
(*                                                                         *)
(* The file holds two generations of the handler:                          *)
(*   lines   1-272  the reply-token version  (version = "reply")           *)
(*   lines 274-555  the push-only version    (version = "push")            *)
(*                                                                         *)
(* Strings are sequences of atoms.  An atom of an inbound message text is  *)
(* one character; an atom of an outbound text is one character or one      *)
(* fixed fragment of a template literal.  The Japanese literals of the     *)
(* source are written in ASCII:                                            *)
(*   "(" "translation failed" ")"  = the marker of lines 198 / 441         *)
(*   "(" "translation failed" ": API key not set" ")" = lines 191 / 426    *)
(*   "JA->TH" "TH->JA" "EN->JA"    = the three direction labels            *)
(***************************************************************************)
EXTENDS Integers, Sequences, FiniteSets, TLC

VARIABLES
  version,         \* "reply" (lines 1-272) or "push" (lines 274-555)
  env,             \* [OPENAI_API_KEY, LINE_CHANNEL_ACCESS_TOKEN]
  body,            \* what request.json() yields: [kind, events]
  response,        \* the Response of onRequestPost, or NoResponse
  started,         \* handleEvents was handed to context.waitUntil
  pc,              \* position of handleEvents
  idx,             \* index of the event the for-loop is at
  chunks,          \* chunks of the current event still to translate
  translatedParts, \* translatedParts of the current event
  call,            \* the completion call being awaited
  sending,         \* the sendLine / pushLine invocation being executed
  timer,           \* timeout of the armed setTimeout, 0 when none is armed
  lastResult,      \* outcome object of the last completion call
  upstream,        \* what the completion endpoint did to the last call
  requests,        \* every outbound fetch issued, in order
  sendCalls,       \* every sendLine / pushLine invocation, in order
  visited          \* indices of the events the for-loop has entered

vars == <<version, env, body, response, started, pc, idx, chunks,
          translatedParts, call, sending, timer, lastResult, upstream,
          requests, sendCalls, visited>>

----------------------------------------------------------------------------
(* Bounds of the model *)

\* Largest batch (events array) a request carries.
MaxEvents == 2
\* Stand-in for the chunk length 1400 of line 74 (reply version).
ChunkLenReply == 3
\* Stand-in for the chunk length 900 of line 329 (push version).
ChunkLenPush == 3
\* largest text length and largest maxLen given to splitTextSmart on its own
MaxTextLen == 5
MaxSplitLen == 3
\* largest text length given to detectDirection on its own
MaxDetectLen == 3

(* Program constants *)

TranslateTimeoutMs == 25000
WhyTimeoutMs == 20000
DebugTimeoutMs == 15000
FirstTimeoutMs == 8000
SecondTimeoutMs == 12000

----------------------------------------------------------------------------
(* String helpers: what the JavaScript string methods do *)

NL == "\n"
Whitespace == {" ", "\t", NL}

RECURSIVE TrimStart(_)
TrimStart(s) ==
  IF s # <<>> /\ Head(s) \in Whitespace THEN TrimStart(Tail(s)) ELSE s

RECURSIVE TrimEnd(_)
TrimEnd(s) ==
  IF s # <<>> /\ s[Len(s)] \in Whitespace
  THEN TrimEnd(SubSeq(s, 1, Len(s) - 1)) ELSE s

\* String.prototype.trim
Trim(s) == TrimEnd(TrimStart(s))

\* String.prototype.startsWith
StartsWith(s, p) == Len(s) >= Len(p) /\ SubSeq(s, 1, Len(p)) = p

\* String.prototype.includes
Includes(s, p) ==
  \E i \in 0..(Len(s) - Len(p)) : SubSeq(s, i + 1, i + Len(p)) = p

\* Array.prototype.join
RECURSIVE Join(_, _)
Join(parts, sep) ==
  IF parts = <<>> THEN <<>>
  ELSE IF Len(parts) = 1 THEN parts[1]
  ELSE parts[1] \o <<sep>> \o Join(Tail(parts), sep)

\* String.prototype.split("\n")
RECURSIVE SplitLines(_, _)
SplitLines(s, cur) ==
  IF s = <<>> THEN <<cur>>
  ELSE IF Head(s) = NL THEN <<cur>> \o SplitLines(Tail(s), <<>>)
  ELSE SplitLines(Tail(s), Append(cur, Head(s)))

----------------------------------------------------------------------------
(* Text literals of the source *)

FailMarker == <<"(", "translation failed", ")">>
KeyMissingMarker == <<"(", "translation failed", ": API key not set", ")">>
FailNoticeReply ==
  FailMarker \o <<"please send again; split long text; prefix // to skip">>
FailNoticePush ==
  FailMarker \o <<"please send again; send long text in parts; prefix // to skip">>
WhyUsage == <<"[WHY]", "usage: //why <text>">>
DebugNoKeyReply == <<"[DEBUG]", "OPENAI_API_KEY unreadable; check Pages settings">>
DebugNoKeyPush == <<"[DEBUG]", "OPENAI_API_KEY unreadable; check Cloudflare Pages settings">>

CmdDebug == <<"/", "/", "d", "e", "b", "u", "g">>
CmdWhy == <<"/", "/", "w", "h", "y">>
NoTranslate == <<"/", "/">>

----------------------------------------------------------------------------
(* Pure functions *)

ThaiChars == {"th1", "th2"}
JaChars == {"ja1", "ja2"}
LatinChars == {"a", "b", "c", "d", "e", "g", "h", "q", "u", "w", "x", "y"}
\* Japanese-script characters outside the three ranges of the class, such as
\* the katakana U+30F4, the half-width katakana U+FF76 or the kanji U+3400
JaUnmatched == {"ja3"}
\* Latin letters outside A-Z and a-z, such as U+00E9 or the full-width U+FF21
LatinUnmatched == {"lx"}

detectDirection(text) ==
  IF \E i \in 1..Len(text) : text[i] \in ThaiChars THEN "TH->JA"
  ELSE IF \E i \in 1..Len(text) : text[i] \in JaChars THEN "JA->TH"
  ELSE IF \E i \in 1..Len(text) : text[i] \in LatinChars THEN "EN->JA"
  ELSE "JA->TH"

targetLanguage(dir) == IF dir = "JA->TH" THEN "Thai" ELSE "Japanese"

dirLabel(dir) ==
  IF dir = "JA->TH" THEN "flagJP->flagTH"
  ELSE IF dir = "TH->JA" THEN "flagTH->flagJP"
  ELSE IF dir = "EN->JA" THEN "globe->flagJP"
  ELSE "globe"

\* (mutant) the loop of hardSplit stopped at the last whole slice
RECURSIVE hardSplitWholeOnly(_, _)
hardSplitWholeOnly(s, n) ==
  IF Len(s) < n THEN <<>>
  ELSE <<SubSeq(s, 1, n)>> \o hardSplitWholeOnly(SubSeq(s, n + 1, Len(s)), n)

\* (mutant) the loop of splitTextSmart with the buffer thrown away, not
\* pushed, when the next line does not fit
RECURSIVE SplitLoopNoFlush(_, _, _, _)
SplitLoopNoFlush(lines, buf, out, maxLen) ==
  IF lines = <<>>
  THEN IF Trim(buf) # <<>> THEN Append(out, Trim(buf)) ELSE out
  ELSE LET line == Head(lines) IN
       IF Len(line) > maxLen
       THEN SplitLoopNoFlush(Tail(lines),
                      IF Trim(buf) # <<>> THEN <<>> ELSE buf,
                      (IF Trim(buf) # <<>> THEN Append(out, Trim(buf)) ELSE out)
                         \o hardSplitWholeOnly(line, maxLen)
                         \o (IF Len(line) % maxLen = 0 THEN <<>>
                             ELSE <<SubSeq(line, Len(line) - (Len(line) % maxLen) + 1,
                                           Len(line))>>),
                      maxLen)
       ELSE IF Len(buf \o line \o <<NL>>) > maxLen
       THEN SplitLoopNoFlush(Tail(lines), line \o <<NL>>, out, maxLen)
       ELSE SplitLoopNoFlush(Tail(lines), buf \o line \o <<NL>>, out, maxLen)

RECURSIVE hardSplit(_, _)
hardSplit(s, n) ==
  IF s = <<>> THEN <<>>
  ELSE IF Len(s) <= n THEN <<s>>
  ELSE <<SubSeq(s, 1, n)>> \o hardSplit(SubSeq(s, n + 1, Len(s)), n)

RECURSIVE SplitLoop(_, _, _, _)
SplitLoop(lines, buf, out, maxLen) ==
  IF lines = <<>>
  THEN IF Trim(buf) # <<>> THEN Append(out, Trim(buf)) ELSE out
  ELSE LET line == Head(lines) IN
       IF Len(line) > maxLen
       THEN SplitLoop(Tail(lines),
                      IF Trim(buf) # <<>> THEN <<>> ELSE buf,
                      (IF Trim(buf) # <<>> THEN Append(out, Trim(buf)) ELSE out)
                         \o hardSplit(line, maxLen),
                      maxLen)
       ELSE IF Len(buf \o line \o <<NL>>) > maxLen
       THEN SplitLoop(Tail(lines), line \o <<NL>>,
                      IF Trim(buf) # <<>> THEN Append(out, Trim(buf)) ELSE out,
                      maxLen)
       ELSE SplitLoop(Tail(lines), buf \o line \o <<NL>>, out, maxLen)

splitTextSmart(text, maxLen) ==
  IF Len(text) <= maxLen THEN <<text>>
  ELSE SplitLoop(SplitLines(text, <<>>), <<>>, <<>>, maxLen)

\* (mutant) the group id looked at before the user id
getPushTargetGroupFirst(ev) ==
  IF "groupId" \in ev.source THEN "groupId"
  ELSE IF "userId" \in ev.source THEN "userId"
  ELSE IF "roomId" \in ev.source THEN "roomId"
  ELSE "null"

\* lines 140-146 / 357-363
getPushTarget(ev) ==
  IF "userId" \in ev.source THEN "userId"
  ELSE IF "groupId" \in ev.source THEN "groupId"
  ELSE IF "roomId" \in ev.source THEN "roomId"
  ELSE "null"


\* text.replace(/^\/\/why[ \t]*/m, "")
RECURSIVE StripBlanks(_)
StripBlanks(s) ==
  IF s # <<>> /\ Head(s) \in {" ", "\t"} THEN StripBlanks(Tail(s)) ELSE s

\* q.replace(/^\n+/, "")
RECURSIVE StripNewlines(_)
StripNewlines(s) ==
  IF s # <<>> /\ Head(s) = NL THEN StripNewlines(Tail(s)) ELSE s

\* lines 38-39: the query of a //why command
WhyQuery(text) ==
  Trim(StripNewlines(StripBlanks(SubSeq(text, Len(CmdWhy) + 1, Len(text)))))

----------------------------------------------------------------------------
(* Inputs *)

ApiKey1 == <<"s", "k", "1">>
ApiKeys == {<<>>, ApiKey1}

TxtBlank == <<" ">>
TxtShort == <<"a", "b">>
TxtSlash == <<"/", "/">>
TxtSkip == <<"/", "/", "x", " ", "a">>
TxtDebug == CmdDebug
TxtDebugX == CmdDebug \o <<"x">>
TxtWhy == CmdWhy \o <<" ">>
TxtWhyQ == CmdWhy \o <<" ", "a", "b">>
TxtEn == <<"a", "b", "c", " ">>
TxtTh == <<"th1", "a", "th2">>
TxtJa == <<"ja1", "ja2", "ja1">>
TxtTwo == <<"a", "b", NL, "c", "d">>
TxtHard == <<"ja1", "ja2", "ja1", "ja2", "ja1">>

Texts == {TxtBlank, TxtShort, TxtSlash, TxtSkip, TxtDebug, TxtDebugX, TxtWhy,
          TxtWhyQ, TxtEn, TxtTh, TxtJa, TxtTwo, TxtHard}

Sources == {{}, {"roomId"}, {"groupId", "roomId"}, {"userId", "groupId", "roomId"}}

TextEvent(t, rt, src) ==
  [type |-> "message", mtype |-> "text", text |-> t, replyToken |-> rt, source |-> src]

EvFollow ==
  [type |-> "follow", mtype |-> "none", text |-> <<>>, replyToken |-> TRUE,
   source |-> {"userId"}]
EvImage ==
  [type |-> "message", mtype |-> "image", text |-> <<>>, replyToken |-> TRUE,
   source |-> {"userId"}]

\* Events of the one-event batches
EventPool ==
  {EvFollow, EvImage}
    \cup {TextEvent(t, rt, src) : t \in Texts, rt \in BOOLEAN, src \in Sources}

\* Events of the longer batches
SiblingPool ==
  {EvImage,
   TextEvent(TxtShort, TRUE, {"userId"}),
   TextEvent(TxtSkip, TRUE, {"userId"}),
   TextEvent(TxtEn, TRUE, {"userId"})}

RECURSIVE SeqsUpTo(_, _)
SeqsUpTo(S, n) ==
  IF n = 0 THEN {<<>>}
  ELSE LET shorter == SeqsUpTo(S, n - 1) IN
       shorter \cup {Append(q, e) : q \in {r \in shorter : Len(r) = n - 1}, e \in S}

Batches ==
  {<<>>} \cup {<<e>> : e \in EventPool}
         \cup {q \in SeqsUpTo(SiblingPool, MaxEvents) : Len(q) >= 2}

\* What request.json() yields
Bodies ==
  {[kind |-> k, events |-> <<>>] : k \in {"malformed", "noEvents", "notArray"}}
    \cup {[kind |-> "array", events |-> b] : b \in Batches}

NoResponse == [status |-> 0, body |-> "none"]
NoCall == [purpose |-> "none", attempt |-> 0]
NoSend == [text |-> <<>>, to |-> "null", inCatch |-> FALSE]
NoResult == [ok |-> FALSE, text |-> <<>>, reason |-> "none", errorDetail |-> <<>>]

\* what the completion fetch did: resolved with a response, or threw
\* (AbortError from the timer, TypeError from the transport)
NoUpstream == [kind |-> "none"]
Responded(res) == [kind |-> "response", res |-> res]
Threw(name) == [kind |-> "threw", name |-> name]

----------------------------------------------------------------------------
(* onRequestPost, lines 1-18 and 274-293 *)

\* (mutant) the emptiness test of lines 12 / 286 left out
StartsHandlerAnyArray(b) == b.kind = "array"

\* lines 5-14: the body carries a non-empty events array
StartsHandler(b) == b.kind = "array" /\ Len(b.events) # 0

\* new Response("OK"): status 200
ResponseFor(b) == [status |-> 200, body |-> "OK"]

Init ==
  /\ version \in {"reply", "push"}
  /\ env \in [OPENAI_API_KEY : ApiKeys, LINE_CHANNEL_ACCESS_TOKEN : BOOLEAN]
  /\ body \in Bodies
  /\ response = NoResponse
  /\ started = FALSE
  /\ pc = "request"
  /\ idx = 0
  /\ chunks = <<>>
  /\ translatedParts = <<>>
  /\ call = NoCall
  /\ sending = NoSend
  /\ timer = 0
  /\ lastResult = NoResult
  /\ upstream = NoUpstream
  /\ requests = <<>>
  /\ sendCalls = <<>>
  /\ visited = {}

onRequestPost ==
  /\ pc = "request"
  /\ response' = ResponseFor(body)
  /\ IF StartsHandler(body)
     THEN started' = TRUE /\ pc' = "loop" /\ idx' = 1
     ELSE started' = FALSE /\ pc' = "idle" /\ idx' = idx
  /\ UNCHANGED <<version, env, body, chunks, translatedParts, call, sending,
                 timer, lastResult, upstream, requests, sendCalls, visited>>


----------------------------------------------------------------------------
(* The completion API: responses and the outcome objects made of them *)

Contents == {<<"tr1">>, <<"tr2", " ">>, <<"tr3">> \o FailMarker, <<" ">>}

\* error.message of an upstream that quotes the key it was sent
EchoedKeyMessage == <<"Incorrect API key provided: ">> \o ApiKey1

\* A response of the chat-completions endpoint (reply version):
\* ok/status = res.ok/res.status, json = the body parses as JSON,
\* isString/content = choices[0].message.content, errmsg = error.message
ChatCompletionResponses ==
  {[ok |-> TRUE, status |-> "200", json |-> TRUE, isString |-> TRUE,
    content |-> c, errmsg |-> <<>>] : c \in Contents}
  \cup
  {[ok |-> TRUE, status |-> "200", json |-> TRUE, isString |-> FALSE,
    content |-> <<>>, errmsg |-> <<>>],
   [ok |-> TRUE, status |-> "200", json |-> FALSE, isString |-> FALSE,
    content |-> <<>>, errmsg |-> <<>>],
   [ok |-> FALSE, status |-> "401", json |-> TRUE, isString |-> FALSE,
    content |-> <<>>, errmsg |-> <<"invalid key">>],
   [ok |-> FALSE, status |-> "401", json |-> TRUE, isString |-> FALSE,
    content |-> <<>>, errmsg |-> EchoedKeyMessage],
   [ok |-> FALSE, status |-> "500", json |-> FALSE, isString |-> FALSE,
    content |-> <<>>, errmsg |-> <<>>]}

\* A JSON value read as text: a string, an object, or absent
Str(v) == [kind |-> "string", val |-> v]
Obj(v) == [kind |-> "object", val |-> v]
Missing == [kind |-> "missing", val |-> <<>>]

\* A response of the responses endpoint (push version): output_text and
\* output[i].content[j].text; output is the sequence of items, an item the
\* sequence of its content texts
ResponsesResponses ==
  {[ok |-> TRUE, status |-> "200", json |-> TRUE, output_text |-> ot,
    output |-> o, errmsg |-> <<>>] :
      ot \in {Str(<<"tr1">>), Missing},
      o \in {<<>>, << <<Str(<<" ">>)>>, <<Missing, Str(<<"tr2">>)>> >>,
             << <<Obj(<<"tr2">>)>> >>}}
  \cup
  {[ok |-> TRUE, status |-> "200", json |-> FALSE, output_text |-> Missing,
    output |-> <<>>, errmsg |-> <<>>],
   [ok |-> FALSE, status |-> "401", json |-> TRUE, output_text |-> Missing,
    output |-> <<>>, errmsg |-> <<"invalid key">>],
   [ok |-> FALSE, status |-> "401", json |-> TRUE, output_text |-> Missing,
    output |-> <<>>, errmsg |-> EchoedKeyMessage],
   [ok |-> FALSE, status |-> "500", json |-> FALSE, output_text |-> Missing,
    output |-> <<>>, errmsg |-> <<>>]}

Outcome(ok, text, reason, errorDetail) ==
  [ok |-> ok, text |-> text, reason |-> reason, errorDetail |-> errorDetail]

\* lines 227-250: what callOpenAIChatCompletions returns for a response
ChatCompletionsResult(res) ==
  IF ~res.ok
  THEN Outcome(FALSE, <<"OpenAI ", res.status>>, "http",
               IF res.json /\ res.errmsg # <<>>
               THEN <<"status=", res.status, " / ">> \o res.errmsg
               ELSE <<"status=", res.status>>)
  ELSE IF ~res.json
  THEN Outcome(FALSE, <<"fetch error">>, "fetch", <<"fetch error">>)
  ELSE IF res.isString /\ Trim(res.content) # <<>>
  THEN Outcome(TRUE, Trim(res.content), "undefined", <<>>)
  ELSE Outcome(FALSE, <<"no choices[0].message.content">>, "parse",
               <<"parse: content missing">>)

\* lines 251-253: the catch block of callOpenAIChatCompletions
ChatCompletionsCaught(name) ==
  IF name = "AbortError"
  THEN Outcome(FALSE, <<"timeout">>, "timeout", <<"timeout">>)
  ELSE Outcome(FALSE, <<"fetch error">>, "fetch", <<"fetch error">>)

RECURSIVE Flatten(_)
Flatten(items) ==
  IF items = <<>> THEN <<>> ELSE Head(items) \o Flatten(Tail(items))

\* lines 494-502 over the content texts in order: the first non-blank text;
\* .trim() of an object throws
RECURSIVE FirstText(_)
FirstText(texts) ==
  IF texts = <<>> THEN [thrown |-> FALSE, txt |-> <<>>]
  ELSE IF Head(texts).kind = "object" THEN [thrown |-> TRUE, txt |-> <<>>]
  ELSE IF Trim(Head(texts).val) # <<>>
  THEN [thrown |-> FALSE, txt |-> Trim(Head(texts).val)]
  ELSE FirstText(Tail(texts))

extractTextFromResponses(json) == FirstText(Flatten(json.output))

\* lines 466-481: what callOpenAI returns for a response
callOpenAIResult(res) ==
  IF ~res.ok
  THEN Outcome(FALSE, <<"OpenAI ", res.status>>, "undefined", <<>>)
  ELSE IF ~res.json \/ res.output_text.kind = "object"
  THEN Outcome(FALSE, <<"error">>, "undefined", <<>>)
  ELSE IF Trim(res.output_text.val) # <<>>
  THEN Outcome(TRUE, Trim(res.output_text.val), "undefined", <<>>)
  ELSE LET alt == extractTextFromResponses(res) IN
       IF alt.thrown THEN Outcome(FALSE, <<"error">>, "undefined", <<>>)
       ELSE IF alt.txt # <<>> THEN Outcome(TRUE, alt.txt, "undefined", <<>>)
       ELSE Outcome(FALSE, <<"no output_text">>, "undefined", <<>>)

\* lines 482-483: the catch block of callOpenAI
callOpenAICaught(name) ==
  Outcome(FALSE, IF name = "AbortError" THEN <<"timeout">> ELSE <<"error">>,
          "undefined", <<>>)

\* a || b on strings
OrElse(a, b) == IF a # <<>> THEN a ELSE b

KeyLen == ToString(Len(env.OPENAI_API_KEY))

\* lines 266-268: the report of debugReport (reply version)
DebugReportReply(r) ==
  IF r.ok
  THEN <<"[DEBUG]", "OPENAI_API_KEY length=", KeyLen, " / OpenAI status=200">>
  ELSE <<"[DEBUG]", "OPENAI_API_KEY length=", KeyLen, " / ">>
         \o OrElse(r.errorDetail, r.text)

\* lines 544-551: the report of debugReport (push version)
DebugReportPush(res) ==
  <<"[DEBUG]", "OPENAI_API_KEY length=", KeyLen, " / OpenAI status=", res.status>>
    \o (IF res.json /\ res.errmsg # <<>> THEN <<" / ">> \o res.errmsg ELSE <<>>)

\* line 553
DebugReportPushCaught(name) ==
  <<"[DEBUG]", "OPENAI_API_KEY length=", KeyLen, " / OpenAI fetch error=", name>>

\* lines 50-54: the message of the //why command
WhyMessage(r) ==
  IF r.ok THEN <<"[WHY]", "OK / len=", ToString(Len(r.text))>>
  ELSE <<"[WHY]", "fail reason=", r.reason, " / detail=">>
         \o OrElse(r.errorDetail, OrElse(r.text, <<"no detail">>))

\* lines 82-91: the text the reply version sends after the chunk loop
AssembleReply(parts, dir) ==
  IF \E i \in 1..Len(parts) : Includes(parts[i], FailMarker)
  THEN FailNoticeReply
  ELSE <<dirLabel(dir), NL>> \o Join(parts, NL)

\* lines 337-338: the text the push version sends after the chunk loop
AssemblePush(parts, dir) == <<"[", dir, "]", NL>> \o Join(parts, NL)


----------------------------------------------------------------------------
(* handleEvents, lines 20-102 and 295-355 *)

config == <<version, env, body, response, started>>

Ev == body.events[idx]
Text == Trim(Ev.text)
Dir == detectDirection(Text)
Token == env.LINE_CHANNEL_ACCESS_TOKEN
HasKey == env.OPENAI_API_KEY # <<>>

\* index in sendCalls of the sendLine / pushLine invocation that is running
SendId ==
  IF pc = "send" THEN Len(sendCalls) + 1
  ELSE IF pc \in {"reply", "push"} THEN Len(sendCalls)
  ELSE 0

Req(api, text, to, lang, ms) ==
  [api |-> api, ev |-> idx, send |-> SendId, text |-> text, to |-> to,
   lang |-> lang, timeoutMs |-> ms, outcome |-> "pending"]

\* the log with the fetch in flight settled
Settled(o) == [requests EXCEPT ![Len(requests)].outcome = o]

\* lines 23-27 / 298-302: not a text message, or blank after trimming
NotText(ev) == ev.type # "message" \/ ev.mtype # "text" \/ Trim(ev.text) = <<>>

\* line 30 / line 305: the diagnostic command
IsDebugReply(text) == text = CmdDebug
IsDebugPush(text) == StartsWith(text, CmdDebug)

\* line 37
IsWhy(text) == StartsWith(text, CmdWhy)

\* (mutant) the marker compared with === instead of startsWith
IsNoTranslateExact(text) == text = NoTranslate

\* line 59 / line 314: the no-translate marker
IsNoTranslate(text) == StartsWith(text, NoTranslate)

\* (mutant) < 2 instead of <= 2
TooShortStrict(text) == Len(text) < 2

\* line 61 / line 318
TooShort(text) == Len(text) <= 2

\* continue: on to the next event of the for-loop
NextEvent(rq) ==
  /\ pc' = "loop"
  /\ idx' = idx + 1
  /\ chunks' = <<>>
  /\ translatedParts' = <<>>
  /\ call' = NoCall
  /\ sending' = NoSend
  /\ timer' = 0
  /\ requests' = rq

\* a call of sendLine(ev, text, token) / pushLine(to, text, token)
GoSend(text, to, inCatch, rq) ==
  /\ pc' = "send"
  /\ sending' = [text |-> text, to |-> to, inCatch |-> inCatch]
  /\ call' = NoCall
  /\ timer' = 0
  /\ requests' = rq
  /\ UNCHANGED <<idx, chunks, translatedParts>>

\* lines 205-209 / 445-449 / 528: the completion fetch is issued, with its
\* timer when the caller arms one (ms > 0)
StartCall(purpose, attempt, text, lang, ms, rq) ==
  /\ pc' = "call"
  /\ call' = [purpose |-> purpose, attempt |-> attempt]
  /\ timer' = ms
  /\ requests' = Append(rq, Req("completion", text, "null", lang, ms))
  /\ UNCHANGED <<idx, chunks, translatedParts, sending>>

\* lines 74-76 / 329-331
StartTranslate(maxLen) ==
  /\ pc' = "translate"
  /\ chunks' = splitTextSmart(Text, maxLen)
  /\ translatedParts' = <<>>
  /\ UNCHANGED <<idx, call, sending, timer, requests>>

\* lines 29-76
BeginReply ==
  IF IsDebugReply(Text)
  THEN IF HasKey
       THEN StartCall("debug", 1, <<"O", "K">>, "Return OK.", DebugTimeoutMs, requests)
       ELSE GoSend(DebugNoKeyReply, "null", FALSE, requests)
  ELSE IF IsWhy(Text)
  THEN IF WhyQuery(Text) = <<>>
       THEN GoSend(WhyUsage, "null", FALSE, requests)
       ELSE StartCall("why", 1, WhyQuery(Text),
                      targetLanguage(detectDirection(WhyQuery(Text))),
                      WhyTimeoutMs, requests)
  ELSE IF IsNoTranslate(Text) \/ TooShort(Text)
  THEN NextEvent(requests)
  ELSE StartTranslate(ChunkLenReply)

\* lines 304-331
BeginPush ==
  IF IsDebugPush(Text)
  THEN IF getPushTarget(Ev) = "null" THEN NextEvent(requests)
       ELSE IF HasKey
       THEN StartCall("debug", 1, <<"O", "K">>, "Return OK.", 0, requests)
       ELSE GoSend(DebugNoKeyPush, getPushTarget(Ev), FALSE, requests)
  ELSE IF IsNoTranslate(Text) \/ TooShort(Text) \/ getPushTarget(Ev) = "null"
  THEN NextEvent(requests)
  ELSE StartTranslate(ChunkLenPush)

\* one iteration of the for-loop starts: lines 21-76 / 296-331
BeginEvent ==
  /\ pc = "loop"
  /\ idx <= Len(body.events)
  /\ visited' = visited \cup {idx}
  /\ IF NotText(Ev) THEN NextEvent(requests)
     ELSE IF version = "reply" THEN BeginReply
     ELSE BeginPush
  /\ lastResult' = NoResult
  /\ upstream' = NoUpstream
  /\ UNCHANGED <<config, sendCalls>>

\* the for-loop is over: handleEvents resolves
Finish ==
  /\ pc = "loop"
  /\ idx > Len(body.events)
  /\ pc' = "done"
  /\ UNCHANGED <<config, idx, chunks, translatedParts, call, sending, timer,
                 lastResult, upstream, requests, sendCalls, visited>>

\* translateFast, line 191 / 426: no API key
translateFastNoKey ==
  /\ pc = "translate"
  /\ chunks # <<>>
  /\ ~HasKey
  /\ translatedParts' = Append(translatedParts, KeyMissingMarker)
  /\ chunks' = Tail(chunks)
  /\ lastResult' = NoResult
  /\ upstream' = NoUpstream
  /\ UNCHANGED <<config, pc, idx, call, sending, timer, requests, sendCalls,
                 visited>>

\* translateFast, lines 193-195 / 428-433: the (first) completion call
translateFastCall ==
  /\ pc = "translate"
  /\ chunks # <<>>
  /\ HasKey
  /\ StartCall("translate", 1, Head(chunks), targetLanguage(Dir),
               IF version = "reply" THEN TranslateTimeoutMs ELSE FirstTimeoutMs,
               requests)
  /\ lastResult' = NoResult
  /\ upstream' = NoUpstream
  /\ UNCHANGED <<config, sendCalls, visited>>

\* lines 82-93 / 337-341: the chunk loop is over
Assemble ==
  /\ pc = "translate"
  /\ chunks = <<>>
  /\ IF version = "reply"
     THEN GoSend(AssembleReply(translatedParts, Dir), "null", FALSE, requests)
     ELSE GoSend(AssemblePush(translatedParts, Dir), getPushTarget(Ev), FALSE,
                 requests)
  /\ lastResult' = NoResult
  /\ upstream' = NoUpstream
  /\ UNCHANGED <<config, sendCalls, visited>>

\* how the log records a completion call that returned r: by r.ok
CallOutcome(r) == IF r.ok THEN "ok" ELSE "fail"

\* (mutant) the second attempt made whatever the first returned
AfterCallRetryAlways(r) ==
  /\ lastResult' = r
  /\ IF call.purpose = "translate"
     THEN IF version = "push" /\ call.attempt = 1
          THEN StartCall("translate", 2, Head(chunks), targetLanguage(Dir),
                         SecondTimeoutMs, Settled(CallOutcome(r)))
          ELSE /\ translatedParts' =
                    Append(translatedParts, IF r.ok THEN r.text ELSE FailMarker)
               /\ chunks' = Tail(chunks)
               /\ pc' = "translate"
               /\ call' = NoCall
               /\ timer' = 0
               /\ requests' = Settled(CallOutcome(r))
               /\ UNCHANGED <<idx, sending>>
     ELSE IF call.purpose = "debug"
     THEN GoSend(DebugReportReply(r), "null", FALSE, Settled(CallOutcome(r)))
     ELSE GoSend(WhyMessage(r), "null", FALSE, Settled(CallOutcome(r)))
  /\ UNCHANGED <<config, sendCalls, visited>>

\* translateFast, lines 196-198 / 434-441, and the callers of
\* callOpenAIChatCompletions at lines 31-32 and 49-54: the call returned r
AfterCall(r) ==
  /\ lastResult' = r
  /\ IF call.purpose = "translate"
     THEN IF version = "push" /\ call.attempt = 1 /\ ~r.ok
          THEN StartCall("translate", 2, Head(chunks), targetLanguage(Dir),
                         SecondTimeoutMs, Settled(CallOutcome(r)))
          ELSE /\ translatedParts' =
                    Append(translatedParts, IF r.ok THEN r.text ELSE FailMarker)
               /\ chunks' = Tail(chunks)
               /\ pc' = "translate"
               /\ call' = NoCall
               /\ timer' = 0
               /\ requests' = Settled(CallOutcome(r))
               /\ UNCHANGED <<idx, sending>>
     ELSE IF call.purpose = "debug"
     THEN GoSend(DebugReportReply(r), "null", FALSE, Settled(CallOutcome(r)))
     ELSE GoSend(WhyMessage(r), "null", FALSE, Settled(CallOutcome(r)))
  /\ UNCHANGED <<config, sendCalls, visited>>

IsRawDebugFetch == version = "push" /\ call.purpose = "debug"

\* the completion API answers
CompletionResponds ==
  /\ pc = "call"
  /\ ~IsRawDebugFetch
  /\ IF version = "reply"
     THEN \E res \in ChatCompletionResponses :
            AfterCall(ChatCompletionsResult(res)) /\ upstream' = Responded(res)
     ELSE \E res \in ResponsesResponses :
            AfterCall(callOpenAIResult(res)) /\ upstream' = Responded(res)

\* lines 206 / 446: the timer fires and aborts the fetch
CompletionTimesOut ==
  /\ pc = "call"
  /\ ~IsRawDebugFetch
  /\ timer > 0
  /\ IF version = "reply"
     THEN AfterCall(ChatCompletionsCaught("AbortError"))
     ELSE AfterCall(callOpenAICaught("AbortError"))
  /\ upstream' = Threw("AbortError")

\* the fetch rejects (transport error)
CompletionRejects ==
  /\ pc = "call"
  /\ ~IsRawDebugFetch
  /\ IF version = "reply"
     THEN AfterCall(ChatCompletionsCaught("TypeError"))
     ELSE AfterCall(callOpenAICaught("TypeError"))
  /\ upstream' = Threw("TypeError")

\* debugReport of the push version, lines 528-554: its own fetch, no timer
DebugFetchSettles ==
  /\ pc = "call"
  /\ IsRawDebugFetch
  /\ \/ \E res \in ResponsesResponses :
          /\ GoSend(DebugReportPush(res), getPushTarget(Ev), FALSE,
                    Settled(IF res.ok THEN "ok" ELSE "notok"))
          /\ upstream' = Responded(res)
     \/ /\ GoSend(DebugReportPushCaught("TypeError"), getPushTarget(Ev), FALSE,
                  Settled("reject"))
        /\ upstream' = Threw("TypeError")
  /\ lastResult' = NoResult
  /\ UNCHANGED <<config, sendCalls, visited>>

----------------------------------------------------------------------------
(* Delivery: sendLine lines 105-138, pushLine lines 505-519 *)

\* lines 124-137: the push stage of sendLine
PushStage(rq) ==
  IF getPushTarget(Ev) = "null"
  THEN NextEvent(rq)
  ELSE /\ pc' = "push"
       /\ requests' = Append(rq, Req("push", sending.text, getPushTarget(Ev), "", 0))
       /\ UNCHANGED <<idx, chunks, translatedParts, call, sending, timer>>

\* lines 106-120
sendLine ==
  IF ~Token THEN NextEvent(requests)
  ELSE IF Ev.replyToken
  THEN /\ pc' = "reply"
       /\ requests' = Append(requests, Req("reply", sending.text, "null", "", 0))
       /\ UNCHANGED <<idx, chunks, translatedParts, call, sending, timer>>
  ELSE PushStage(requests)

\* lines 506-518
pushLine ==
  IF ~Token THEN NextEvent(requests)
  ELSE /\ pc' = "push"
       /\ requests' = Append(requests, Req("push", sending.text, sending.to, "", 0))
       /\ UNCHANGED <<idx, chunks, translatedParts, call, sending, timer>>

\* sendLine / pushLine is entered
Send ==
  /\ pc = "send"
  /\ sendCalls' = Append(sendCalls, [ev |-> idx, text |-> sending.text,
                                     inCatch |-> sending.inCatch])
  /\ IF version = "reply" THEN sendLine ELSE pushLine
  /\ lastResult' = NoResult
  /\ upstream' = NoUpstream
  /\ UNCHANGED <<config, visited>>

\* an exception leaves sendLine / pushLine: into the catch block of the
\* event (lines 94, 343), or out of handleEvents when thrown inside it
Throw(rq) ==
  /\ pc' = IF sending.inCatch THEN "rejected" ELSE "catch"
  /\ requests' = rq
  /\ UNCHANGED <<idx, chunks, translatedParts, call, sending, timer>>

\* (mutant) sendLine without the return of line 121
ReplyRespondsNoReturn ==
  /\ pc = "reply"
  /\ \/ PushStage(Settled("ok"))
     \/ PushStage(Settled("notok"))
  /\ UNCHANGED <<config, lastResult, upstream, sendCalls, visited>>

\* line 121: the reply API answers
ReplyResponds ==
  /\ pc = "reply"
  /\ \/ NextEvent(Settled("ok"))
     \/ PushStage(Settled("notok"))
  /\ UNCHANGED <<config, lastResult, upstream, sendCalls, visited>>

\* line 110: the reply fetch rejects
ReplyRejects ==
  /\ pc = "reply"
  /\ Throw(Settled("reject"))
  /\ UNCHANGED <<config, lastResult, upstream, sendCalls, visited>>

\* lines 127 / 508: the push API answers; the response is not looked at
PushResponds ==
  /\ pc = "push"
  /\ \E o \in {"ok", "notok"} : NextEvent(Settled(o))
  /\ UNCHANGED <<config, lastResult, upstream, sendCalls, visited>>

\* lines 127 / 508: the push fetch rejects
PushRejects ==
  /\ pc = "push"
  /\ Throw(Settled("reject"))
  /\ UNCHANGED <<config, lastResult, upstream, sendCalls, visited>>

\* lines 94-100 / 343-353: the catch block of the event
Catch ==
  /\ pc = "catch"
  /\ IF version = "reply"
     THEN GoSend(FailNoticeReply, "null", TRUE, requests)
     ELSE IF getPushTarget(Ev) # "null"
     THEN GoSend(FailNoticePush, getPushTarget(Ev), TRUE, requests)
     ELSE NextEvent(requests)
  /\ UNCHANGED <<config, lastResult, upstream, sendCalls, visited>>

----------------------------------------------------------------------------

Next ==
  \/ onRequestPost
  \/ BeginEvent
  \/ Finish
  \/ translateFastNoKey
  \/ translateFastCall
  \/ Assemble
  \/ CompletionResponds
  \/ CompletionTimesOut
  \/ CompletionRejects
  \/ DebugFetchSettles
  \/ Send
  \/ ReplyResponds
  \/ ReplyRejects
  \/ PushResponds
  \/ PushRejects
  \/ Catch

Spec == Init /\ [][Next]_vars

----------------------------------------------------------------------------
(* splitTextSmart on its own: every text over a small alphabet, every
   maxLen, lines 155-187 / 381-417 *)

SplitAlphabet == {"a", "b", " ", NL}
SplitTexts == SeqsUpTo(SplitAlphabet, MaxTextLen)

\* the handler is not running
HandlerAtRest ==
  /\ version = "reply"
  /\ env = [OPENAI_API_KEY |-> <<>>, LINE_CHANNEL_ACCESS_TOKEN |-> FALSE]
  /\ body = [kind |-> "array", events |-> <<>>]
  /\ response = NoResponse
  /\ started = FALSE
  /\ idx = 0
  /\ translatedParts = <<>>
  /\ sending = NoSend
  /\ timer = 0
  /\ lastResult = NoResult
  /\ upstream = NoUpstream
  /\ requests = <<>>
  /\ sendCalls = <<>>
  /\ visited = {}

InitSplit ==
  /\ HandlerAtRest
  /\ pc = "split"
  /\ call \in [purpose : {"splitTextSmart"}, attempt : {0},
               text : SplitTexts, maxLen : 1..MaxSplitLen]
  /\ chunks = <<>>

\* const chunks = splitTextSmart(text, maxLen)
splitTextSmartCall ==
  /\ pc = "split"
  /\ chunks' = splitTextSmart(call.text, call.maxLen)
  /\ pc' = "splitDone"
  /\ UNCHANGED <<version, env, body, response, started, idx, translatedParts,
                 call, sending, timer, lastResult, upstream, requests,
                 sendCalls, visited>>

NextSplit == splitTextSmartCall

SpecSplit == InitSplit /\ [][NextSplit]_vars


----------------------------------------------------------------------------
(* Properties *)

Events == body.events
RequestsOf(i) == {k \in 1..Len(requests) : requests[k].ev = i}
SendCallsOf(i) == {k \in 1..Len(sendCalls) : sendCalls[k].ev = i}
Ok200 == [status |-> 200, body |-> "OK"]

\* C1: onRequestPost answers 200 "OK" on every path, whatever handleEvents
\* does afterwards; for a malformed body or missing / non-array / empty
\* events handleEvents is never started and no outbound request is made.
C1_AlwaysOk ==
  /\ pc # "request" => response = Ok200
  /\ (body.kind # "array" \/ Len(body.events) = 0) =>
        /\ ~started
        /\ pc \in {"request", "idle"}
        /\ requests = <<>>
        /\ sendCalls = <<>>
        /\ visited = {}

C1_Witness ==
  /\ body.kind = "array"
  /\ body.events = <<>>
  /\ pc = "idle"
  /\ response = Ok200

\* what translateFast returns on its failure paths (lines 191, 198, 426, 441)
TranslateFailures == {FailMarker, KeyMissingMarker}
SomeChunkFailed ==
  \E i \in 1..Len(translatedParts) : translatedParts[i] \in TranslateFailures
AllChunksSucceeded ==
  /\ translatedParts # <<>>
  /\ chunks = <<>>
  /\ \A i \in 1..Len(translatedParts) : translatedParts[i] \notin TranslateFailures

\* C2: reply version: once translateFast has failed for a chunk of the
\* event, every text handed to sendLine for the event is the generic failure
\* notice.
C2_OnlyFailureNotice ==
  (version = "reply" /\ pc \in {"send", "reply", "push", "catch", "rejected"}
     /\ SomeChunkFailed)
  => /\ \A k \in SendCallsOf(idx) : sendCalls[k].text = FailNoticeReply
     /\ pc = "send" => sending.text = FailNoticeReply

\* C3: push version: once translateFast has failed for a chunk of the event,
\* the partial results are discarded and the message pushed for the event is
\* the generic failure notice.
C3_OnlyFailureNotice ==
  (version = "push" /\ pc \in {"send", "reply", "push", "catch", "rejected"}
     /\ SomeChunkFailed)
  => /\ \A k \in SendCallsOf(idx) : sendCalls[k].text = FailNoticePush
     /\ pc = "send" => sending.text = FailNoticePush

\* C4: reply version: when the completion call succeeded for every chunk,
\* sendLine is invoked once for the event, with the direction label, a
\* newline and the translations joined by newlines in chunk order.
C4_LabelAndTranslations ==
  (version = "reply" /\ pc \in {"send", "reply", "push", "catch", "rejected"}
     /\ AllChunksSucceeded)
  => /\ Cardinality(SendCallsOf(idx)) <= 1
     /\ \A k \in SendCallsOf(idx) :
          sendCalls[k].text = <<dirLabel(Dir), NL>> \o Join(translatedParts, NL)
     /\ pc = "send" =>
          sending.text = <<dirLabel(Dir), NL>> \o Join(translatedParts, NL)
     /\ pc \notin {"catch", "rejected"}

\* C5: a failure while one event is processed never keeps handleEvents from
\* the events after it: when handleEvents has ended, every event of the
\* batch has been visited.
C5_EveryEventVisited ==
  (started /\ pc \in {"done", "rejected"}) => visited = 1..Len(body.events)

\* C6: in sendLine, when the reply fetch rejects, the same text goes out
\* through the push API to the push target of the event and no error reaches
\* the caller.
C6_RejectedReplyFallsBackToPush ==
  \A k \in 1..Len(requests) :
    (requests[k].api = "reply" /\ requests[k].outcome = "reject") =>
      /\ k < Len(requests)
      /\ requests[k + 1].api = "push"
      /\ requests[k + 1].send = requests[k].send
      /\ requests[k + 1].text = requests[k].text
      /\ requests[k + 1].to = getPushTarget(body.events[requests[k].ev])
      /\ ~(requests[k].send = Len(sendCalls) /\ pc \in {"catch", "rejected"})


\* requests issued by the k-th sendLine invocation
SendReqs(k) == {j \in 1..Len(requests) : requests[j].send = k}
Replies(k) == {j \in SendReqs(k) : requests[j].api = "reply"}
Pushes(k) == {j \in SendReqs(k) : requests[j].api = "push"}
SentEvent(k) == body.events[sendCalls[k].ev]

\* exactly one reply request, issued before any push
C7_ReplyIssuedFirst(k) ==
  /\ Cardinality(Replies(k)) = 1
  /\ \A i \in Replies(k) : \A j \in Pushes(k) : i < j

\* the other clauses of C7
C7_PushOnlyAsFallback(k) ==
  /\ \A j \in SendReqs(k) : requests[j].text = sendCalls[k].text
  /\ ~SentEvent(k).replyToken => Replies(k) = {}
  /\ Cardinality(Pushes(k)) <= 1
  /\ \A j \in Pushes(k) :
       /\ \/ ~SentEvent(k).replyToken
          \/ \E i \in Replies(k) : i < j /\ requests[i].outcome = "notok"
       /\ requests[j].to \in SentEvent(k).source
       /\ requests[j].to =
            IF "userId" \in SentEvent(k).source THEN "userId"
            ELSE IF "groupId" \in SentEvent(k).source THEN "groupId"
            ELSE "roomId"
  /\ (\E i \in Replies(k) : requests[i].outcome = "ok") => Pushes(k) = {}
  /\ (~SentEvent(k).replyToken /\ SentEvent(k).source = {}) => SendReqs(k) = {}

\* C7 as stated: whenever the event has a reply token, sendLine issues
\* exactly one reply request first; a push only without reply token or after
\* an unsuccessful reply response, addressed userId > groupId > roomId; no
\* push after a successful reply; nothing without reply token and target.
C7_AsStated ==
  version = "reply" =>
    \A k \in 1..Len(sendCalls) :
      /\ SentEvent(k).replyToken => C7_ReplyIssuedFirst(k)
      /\ C7_PushOnlyAsFallback(k)

\* C7 (amended): the same, for a sendLine that was given an access token;
\* without access token sendLine issues no request at all.
C7_ReplyPreferred ==
  version = "reply" =>
    \A k \in 1..Len(sendCalls) :
      /\ (Token /\ SentEvent(k).replyToken) => C7_ReplyIssuedFirst(k)
      /\ ~Token => SendReqs(k) = {}
      /\ (Token /\ ~SentEvent(k).replyToken /\ SentEvent(k).source # {}) =>
            Cardinality(Pushes(k)) = 1
      /\ C7_PushOnlyAsFallback(k)

C7_Witness ==
  /\ version = "reply"
  /\ \E k \in 1..Len(sendCalls) :
       /\ SentEvent(k).source = {"userId", "groupId", "roomId"}
       /\ \E i \in Replies(k) : requests[i].outcome = "notok"
       /\ \E j \in Pushes(k) : requests[j].to = "userId" /\ requests[j].outcome = "ok"

\* C8: every outbound call awaited by handleEvents (completion, self-test,
\* reply, push) runs under a timer of its own that aborts it.
C8_EveryCallHasTimeout ==
  pc \in {"call", "reply", "push"} =>
    /\ timer > 0
    /\ requests[Len(requests)].timeoutMs = timer

IsTextEvent(ev) == ev.type = "message" /\ ev.mtype = "text"
Marked(ev) == IsTextEvent(ev) /\ StartsWith(Trim(ev.text), <<"/", "/">>)
Silent(i) == RequestsOf(i) = {}

\* C9 as stated: a text message whose trimmed text begins with "//" and is
\* not "//debug" causes no reply, push or completion request.
C9_AsStated ==
  \A i \in 1..Len(body.events) :
    (Marked(body.events[i]) /\ Trim(body.events[i].text) # CmdDebug) => Silent(i)

\* the commands each version answers: "//debug" and "//why..." (reply
\* version, lines 30 and 37), "//debug..." (push version, line 305)
C9_IsCommand(t) ==
  IF version = "reply"
  THEN t = CmdDebug \/ StartsWith(t, <<"/", "/", "w", "h", "y">>)
  ELSE StartsWith(t, CmdDebug)

\* C9 (amended): a text message whose trimmed text begins with "//" and is
\* not a command of the version causes no reply, push or completion request
\* and no sendLine / pushLine call.
C9_MarkedIsSilent ==
  \A i \in 1..Len(body.events) :
    (Marked(body.events[i]) /\ ~C9_IsCommand(Trim(body.events[i].text))) =>
      Silent(i) /\ SendCallsOf(i) = {}

C9_Witness ==
  /\ pc = "done"
  /\ Len(body.events) = 2
  /\ body.events[1].text = TxtSkip
  /\ visited = {1, 2}
  /\ requests # <<>>
  /\ Silent(1)

C10_Ignorable(ev) ==
  \/ ~IsTextEvent(ev)
  \/ Trim(ev.text) = <<>>
  \/ Len(Trim(ev.text)) <= 2

\* C10: an event that is not a text message, or whose text is blank after
\* trimming or at most 2 long, causes no completion, reply or push request,
\* and the loop goes on to the next event.
C10_IgnoredAndOn ==
  \A i \in 1..Len(body.events) :
    C10_Ignorable(body.events[i]) =>
      /\ Silent(i)
      /\ SendCallsOf(i) = {}
      /\ i \in visited => idx > i

C10_Witness ==
  /\ Len(body.events) = 2
  /\ body.events[1].text = TxtShort
  /\ IsTextEvent(body.events[1])
  /\ visited = {1, 2}
  /\ RequestsOf(2) # {}

----------------------------------------------------------------------------
(* detectDirection on its own: every text over a small alphabet, and the
   target language the callers derive from it, lines 148-153 / 365-374 and
   78 / 334 *)

DetectAlphabet == {"th1", "ja1", "a", "1"} \cup JaUnmatched \cup LatinUnmatched
DetectTexts == SeqsUpTo(DetectAlphabet, MaxDetectLen)

InitDetect ==
  /\ HandlerAtRest
  /\ pc = "detect"
  /\ call \in [purpose : {"detectDirection"}, attempt : {0},
               text : DetectTexts, dir : {"none"}, lang : {"none"}]
  /\ chunks = <<>>

\* const dir = detectDirection(text); targetLang = dir === "JA->TH" ? ...
detectDirectionCall ==
  /\ pc = "detect"
  /\ call' = [call EXCEPT !.dir = detectDirection(call.text),
                          !.lang = targetLanguage(detectDirection(call.text))]
  /\ pc' = "detectDone"
  /\ UNCHANGED <<version, env, body, response, started, idx, chunks,
                 translatedParts, sending, timer, lastResult, upstream,
                 requests, sendCalls, visited>>

NextDetect == detectDirectionCall

SpecDetect == InitDetect /\ [][NextDetect]_vars

----------------------------------------------------------------------------
(* C14: detectDirection *)

DetectDone == pc = "detectDone"
Contains(text, S) == \E i \in 1..Len(text) : text[i] \in S

\* C14: every text maps to one of the three directions; any Thai-script
\* character gives TH->JA, otherwise any hiragana/katakana/kanji character
\* gives JA->TH, otherwise any Latin letter gives EN->JA, otherwise JA->TH;
\* the target language is Thai exactly when the direction is JA->TH, and
\* Japanese otherwise.
C14_DirectionPolicy ==
  DetectDone =>
    /\ call.dir \in {"JA->TH", "TH->JA", "EN->JA"}
    /\ call.dir =
         (IF Contains(call.text, ThaiChars) THEN "TH->JA"
          ELSE IF Contains(call.text, JaChars \cup JaUnmatched) THEN "JA->TH"
          ELSE IF Contains(call.text, LatinChars \cup LatinUnmatched) THEN "EN->JA"
          ELSE "JA->TH")
    /\ call.lang = (IF call.dir = "JA->TH" THEN "Thai" ELSE "Japanese")

----------------------------------------------------------------------------
(* C11: the report of debugReport *)

DebugReportSent ==
  /\ pc = "send"
  /\ ~sending.inCatch
  /\ HasKey
  /\ env.LINE_CHANNEL_ACCESS_TOKEN
  /\ IF version = "reply" THEN IsDebugReply(Text) ELSE IsDebugPush(Text)

\* C11: the report text that debugReport produces and the "//debug" path
\* sends never contains the value of the API key, whatever the key and
\* whatever the upstream answered.
C11_ReportOmitsKey ==
  DebugReportSent => ~Includes(sending.text, env.OPENAI_API_KEY)

----------------------------------------------------------------------------
(* C12, C13, C20: splitTextSmart *)

SplitDone == pc = "splitDone"
StripWs(s) == SelectSeq(s, LAMBDA c : c \notin Whitespace)
NoLongLine(text, maxLen) ==
  \A i \in 1..Len(SplitLines(text, <<>>)) :
     Len(SplitLines(text, <<>>)[i]) <= maxLen

RECURSIVE WsDeleted(_, _)
WsDeleted(j, t) ==
  IF t = <<>> THEN j = <<>>
  ELSE \/ j # <<>> /\ Head(j) = Head(t) /\ WsDeleted(Tail(j), Tail(t))
       \/ Head(t) \in Whitespace /\ WsDeleted(j, Tail(t))

\* the lines of s that do not consist purely of whitespace
VisibleLines(s) ==
  SelectSeq(SplitLines(s, <<>>), LAMBDA l : Trim(l) # <<>>)

\* C13 as stated: the chunks joined with newlines are the original text,
\* except that lines consisting purely of whitespace may be trimmed or lost,
\* also when a line is longer than maxLen or has leading/trailing whitespace.
C13_AsStated ==
  SplitDone => VisibleLines(Join(chunks, NL)) = VisibleLines(call.text)

\* C13 (amended): when no line of the text is longer than maxLen, the chunks
\* joined with newlines are the text with whitespace characters deleted and
\* nothing else changed; when the whole text fits maxLen, nothing is deleted.
C13_JoinDeletesOnlyWhitespace ==
  (SplitDone /\ NoLongLine(call.text, call.maxLen)) =>
    /\ WsDeleted(Join(chunks, NL), call.text)
    /\ Len(call.text) <= call.maxLen => Join(chunks, NL) = call.text

\* a text of short lines is cut in two or more chunks and a non-blank line
\* loses whitespace at a chunk border
C13_Witness ==
  /\ SplitDone
  /\ NoLongLine(call.text, call.maxLen)
  /\ Len(chunks) >= 2
  /\ VisibleLines(Join(chunks, NL)) # VisibleLines(call.text)

Ceil(L, n) == (L + n - 1) \div n

\* C20: the chunks concatenated in order, whitespace removed, are the text
\* with whitespace removed; a text without newline and longer than maxLen
\* gives ceil(L/maxLen) chunks whose concatenation is the text.
C20_ContentPreserved ==
  SplitDone =>
    /\ StripWs(Flatten(chunks)) = StripWs(call.text)
    /\ (Len(call.text) > call.maxLen /\ \A i \in 1..Len(call.text) : call.text[i] # NL)
         => /\ Len(chunks) = Ceil(Len(call.text), call.maxLen)
            /\ Flatten(chunks) = call.text

\* a line of length 5 hard-sliced at 2 gives 3 chunks, the last one partial
C20_Witness ==
  /\ SplitDone
  /\ Len(call.text) = 5
  /\ call.maxLen = 2
  /\ \A i \in 1..Len(call.text) : call.text[i] # NL
  /\ Len(chunks) = 3
  /\ Len(chunks[3]) = 1

----------------------------------------------------------------------------
(* C15: what callOpenAI extracts from a success-status response *)

\* the values a response holds, in the order of the locations: output_text,
\* then each output[i].content[j].text, a string or an object holding one
RECURSIVE ValuesOf(_)
ValuesOf(texts) ==
  IF texts = <<>> THEN <<>>
  ELSE (IF Head(texts).kind = "missing" \/ Trim(Head(texts).val) = <<>>
        THEN <<>> ELSE <<Trim(Head(texts).val)>>)
       \o ValuesOf(Tail(texts))

ValuesFound(res) ==
  IF ~res.json THEN <<>>
  ELSE ValuesOf(<<res.output_text>> \o Flatten(res.output))

callOpenAIReturned ==
  /\ version = "push"
  /\ upstream.kind = "response"
  /\ lastResult # NoResult

\* C15: on a success-status response callOpenAI returns the newline-joined
\* concatenation of all values found in output_text and in every
\* output[i].content[j].text (string or nested object), and it fails only
\* when no location holds a value.
C15_ExtractsAllValues ==
  (callOpenAIReturned /\ upstream.res.ok) =>
    IF ValuesFound(upstream.res) = <<>>
    THEN ~lastResult.ok
    ELSE lastResult.ok /\ lastResult.text = Join(ValuesFound(upstream.res), NL)

----------------------------------------------------------------------------
(* C16: the outcomes of callOpenAIChatCompletions *)

ChatCompletionsReturned ==
  /\ version = "reply"
  /\ upstream.kind # "none"
  /\ lastResult # NoResult

\* C16: callOpenAIChatCompletions returns ok=true with the trimmed content
\* exactly when the status is a success and choices[0].message.content is
\* a non-blank string; otherwise ok=false with the http reason for a
\* non-success status, the parse reason for a success-status response that
\* yields no output text, the timeout reason when its timer aborted the
\* call, and the fetch (network) reason only for other transport errors.
C16_OutcomeTaxonomy ==
  ChatCompletionsReturned =>
    IF upstream.kind = "threw"
    THEN /\ ~lastResult.ok
         /\ lastResult.reason =
              (IF upstream.name = "AbortError" THEN "timeout" ELSE "fetch")
    ELSE IF ~upstream.res.ok
    THEN ~lastResult.ok /\ lastResult.reason = "http"
    ELSE IF /\ upstream.res.json
            /\ upstream.res.isString
            /\ Trim(upstream.res.content) # <<>>
    THEN lastResult.ok /\ lastResult.text = Trim(upstream.res.content)
    ELSE ~lastResult.ok /\ lastResult.reason = "parse"

----------------------------------------------------------------------------
(* C17: absent credentials *)

ChatRequests == {k \in 1..Len(requests) : requests[k].api \in {"reply", "push"}}
CompletionRequests == {k \in 1..Len(requests) : requests[k].api = "completion"}

\* C17: without the access token no request to the chat platform is ever
\* issued; without the completion-API key no request to the completion API
\* is issued on any path of handleEvents (translation, //debug, //why).
C17_NoRequestWithoutCredential ==
  /\ ~env.LINE_CHANNEL_ACCESS_TOKEN => ChatRequests = {}
  /\ env.OPENAI_API_KEY = <<>> => CompletionRequests = {}

----------------------------------------------------------------------------
(* C18: the calls translateFast makes for the chunks of one event *)

InTranslation ==
  \/ pc = "translate"
  \/ pc = "call" /\ call.purpose = "translate"

\* the completion calls made so far for the event being translated
TranslateCalls ==
  SelectSeq(requests, LAMBDA q : q.api = "completion" /\ q.ev = idx)
FirstCalls == SelectSeq(TranslateCalls, LAMBDA q : q.timeoutMs # SecondTimeoutMs)
ChunksStarted == Len(translatedParts) + (IF pc = "call" THEN 1 ELSE 0)
AllChunks ==
  splitTextSmart(Text, IF version = "reply" THEN ChunkLenReply ELSE ChunkLenPush)

\* no call is issued while another is in flight
OneInFlight ==
  \A k \in 1..Len(requests) :
     requests[k].outcome = "pending" => k = Len(requests)

\* a 12000 ms call directly follows a failed 8000 ms call for the same chunk
SecondOnlyAfterFailedFirst ==
  \A k \in 1..Len(requests) :
     (requests[k].api = "completion" /\ requests[k].timeoutMs = SecondTimeoutMs)
       => /\ k > 1
          /\ requests[k - 1].api = "completion"
          /\ requests[k - 1].ev = requests[k].ev
          /\ requests[k - 1].text = requests[k].text
          /\ requests[k - 1].timeoutMs = FirstTimeoutMs
          /\ requests[k - 1].outcome = "fail"

\* C18 as stated, its part on the non-retrying translateFast: exactly one
\* completion call is issued for every chunk.
C18_AsStated ==
  (InTranslation /\ version = "reply") => Len(TranslateCalls) = ChunksStarted

\* C18 (amended): with an API key set, the retrying translateFast issues at
\* most two calls per chunk, the 12000 ms one only directly after the
\* 8000 ms one returned a failure, never two in flight, and its value is the
\* text of the successful call; the non-retrying one issues exactly one call
\* per chunk; the calls follow the chunks in order, each issued after the
\* calls of the chunk before have finished. Without a key neither issues a
\* call.
C18_OneTierRetry ==
  /\ OneInFlight
  /\ SecondOnlyAfterFailedFirst
  /\ (InTranslation /\ env.OPENAI_API_KEY # <<>>) =>
       /\ Len(FirstCalls) = ChunksStarted
       /\ \A k \in 1..Len(FirstCalls) : FirstCalls[k].text = AllChunks[k]
       /\ version = "reply" =>
            /\ TranslateCalls = FirstCalls
            /\ \A k \in 1..Len(FirstCalls) :
                  FirstCalls[k].timeoutMs = TranslateTimeoutMs
       /\ version = "push" =>
            /\ Len(TranslateCalls) <= 2 * Len(FirstCalls)
            /\ \A k \in 1..Len(FirstCalls) :
                  FirstCalls[k].timeoutMs = FirstTimeoutMs
  /\ (InTranslation /\ env.OPENAI_API_KEY = <<>>) => TranslateCalls = <<>>
  /\ (pc = "translate" /\ lastResult.ok) =>
       translatedParts[Len(translatedParts)] = lastResult.text

\* a chunk was translated by the second attempt and the call for the next
\* chunk has been issued
C18_Witness ==
  /\ version = "push"
  /\ \E k \in 2..(Len(requests) - 1) :
       /\ requests[k].api = "completion"
       /\ requests[k].timeoutMs = SecondTimeoutMs
       /\ requests[k].outcome = "ok"
       /\ requests[k + 1].api = "completion"
       /\ requests[k + 1].ev = requests[k].ev
       /\ requests[k + 1].timeoutMs = FirstTimeoutMs

----------------------------------------------------------------------------
(* C19: messages delivered per event *)

\* the chat requests of event i that the platform accepted
Delivered(i) ==
  {k \in RequestsOf(i) :
     requests[k].api \in {"reply", "push"} /\ requests[k].outcome = "ok"}

\* C19: for every event at most one chat message is successfully
\* delivered, in both versions: never a result message and a failure notice
\* for the same event, never a reply and a push for the same text.
C19_AtMostOneDelivered ==
  \A i \in 1..Len(Events) : Cardinality(Delivered(i)) <= 1

\* an event whose first send was rejected and whose failure notice, sent
\* from the catch block, was delivered
C19_Witness ==
  \E k \in 1..Len(requests) : \E j \in 1..Len(requests) :
     /\ k < j
     /\ requests[k].ev = requests[j].ev
     /\ requests[k].api \in {"reply", "push"}
     /\ requests[k].outcome = "reject"
     /\ requests[j].api \in {"reply", "push"}
     /\ requests[j].outcome = "ok"
     /\ sendCalls[requests[j].send].inCatch

====
